---- MODULE Spec2Model ----
(***************************************************************************)
(* Model of the network layer of DustElectron:                             *)
(*   - OpenVPNManager  (src/modules/openvpn-manager.js): tunnel controller *)
(*   - NetworkManager  (src/modules/network-manager.js): request dispatch  *)
(*                                                                         *)
(* Node.js runs one callback at a time.  An action of this model is the    *)
(* code that runs between two suspension points on real I/O or timers      *)
(* (fs.access, fs.writeFile, fs.unlink, fetch, setTimeout, setInterval,    *)
(* child-process events).  An await on an async function that itself       *)
(* finishes without I/O only yields to the microtask queue and is folded   *)
(* into the action that contains it.                                       *)
(*                                                                         *)
(* A tunnel process is identified by the connectToVPN call that spawned    *)
(* it, and a SocksProxyAgent by the call whose setupSocksProxy built it.   *)
(* 0 stands for null.                                                      *)
(***************************************************************************)
EXTENDS Integers, Sequences, FiniteSets, TLC

\* ------------------------------------------------------------------ bounds
\* Total number of calls of the public operations (enableVPN, disableVPN,
\* makeRequest) made in one behaviour, in any mix and any interleaving.
MaxCalls == 2
\* Number of those calls that may be enableVPN calls.
MaxConnects == 1
\* Number of downloadImage calls made directly on a DLSiteClient.
MaxImageCalls == 3
\* Largest request list handed to makeBatchRequests.
MaxBatch == 6
\* Longest digit run of the strings handed to the id resolvers.
MaxDigits == 9
\* Longest tail of the URLs handed to _ensureAbsoluteUrl.
MaxTail == 2

\* --------------------------------------------------------------- constants
\* network-manager.js:10   this.maxRetries = 3
maxRetries == 3

Calls == 1..MaxCalls   \* enableVPN / connectToVPN calls (and their processes)
Discs == 1..MaxCalls   \* disableVPN calls
Reqs == 1..MaxCalls    \* makeRequest calls

VARIABLES
  \* OpenVPNManager fields (openvpn-manager.js:10-22)
  vpnProcess,        \* 0 or the id of the process held in this.vpnProcess
  isConnected,       \* this.isConnected
  connectionStatus,  \* this.connectionStatus
  socksProxy,        \* 0 or the id of the agent held in this.socksProxy
  authFilePath,      \* TRUE iff this.authFilePath is a path (always <userData>/vpn/auth.txt)
  \* NetworkManager fields (network-manager.js:6-11)
  useVPN,            \* this.useVPN
  \* environment
  authFileExists,    \* the credential file is on disk
  proc,              \* proc[c]: "none" | "running" | "exited", the child process of call c
  timers,            \* pending 5 s kill timers, named by the process that got SIGTERM
  floating,          \* number of fs.unlink calls in flight for un-awaited cleanup() calls
  \* calls in progress
  cpc,               \* cpc[c]: position of connectToVPN call c
  dpc,               \* dpc[d]: position of disableVPN call d
  rpc,               \* rpc[r]: position of makeRequest call r
  retryCount,        \* retryCount[r]: the retryCount argument of the current attempt
  agent,             \* agent[r]: options.agent of call r (0 = none)
  attempts,          \* attempts[r]: number of fetch() calls made for r so far
  track,             \* track[c]: what the status reached first while c waits for the tunnel
  ev,                \* what the last step did that its caller or the process can see
  \* DLSiteClient (dlsite-api.js:19-55) and the calls made on it
  networkManager,    \* TRUE iff this.networkManager is set (the constructor's argument)
  apiRequests,       \* number of requests submitted to the AJAX API endpoint
  imageCache,        \* this.imageCache: a function from absolute URLs to web paths
  imgRequests,       \* imgRequests[u]: number of _makeRequest calls made for image URL u
  ipc,               \* ipc[k]: position of downloadImage call k
  iurl,              \* iurl[k]: the absolute URL of downloadImage call k
  gpc,               \* position of the getGameInfo / createGameInfo call
  requested,         \* the arguments of the getGameInfo / createGameInfo call
  basicInfo,         \* {} (undefined) or {the API record}
  details,           \* {} (undefined) or {the details object}
  urlsTried,         \* candidate pages requested by getWorkDetails, in request order
  pageOk,            \* the candidates that answered with response.ok
  gameInfo,          \* {} or {the record the call returned}
  \* makeBatchRequests (network-manager.js:137-167)
  bpc,               \* position of the makeBatchRequests call
  requests,          \* number of entries of the requests argument
  concurrency,       \* the concurrency argument
  launched,          \* indices (from 0) of the requests whose makeRequest was called
  settled,           \* indices of the requests whose promise has settled
  responded,         \* indices of the requests whose makeRequest returned a response
  executing,         \* the executing array, as a sequence of request indices
  results,           \* the results array: per promise its request and {} or {its value}
  \* calls of the string helpers of DLSiteClient
  upc,               \* the helper called last ("idle": none yet)
  arg,               \* its argument, a sequence of characters
  result,            \* {} (null, or nothing returned) or {the string it returned}
  threw              \* TRUE iff the call threw

vpnVars == <<vpnProcess, isConnected, connectionStatus, socksProxy, authFilePath>>
envVars == <<authFileExists, proc, timers, floating>>
reqVars == <<rpc, retryCount, agent, attempts>>
netVars == <<vpnProcess, isConnected, connectionStatus, socksProxy, authFilePath, useVPN,
             authFileExists, proc, timers, floating,
             cpc, dpc, rpc, retryCount, agent, attempts, track, ev>>
clientVars == <<networkManager, apiRequests, imageCache, imgRequests, ipc, iurl, gpc, requested, basicInfo, details,
                urlsTried, pageOk, gameInfo>>
batchVars == <<bpc, requests, concurrency, launched, settled, responded, executing,
               results>>
\* What the network layer's own steps leave alone.
utilVars == <<upc, arg, result, threw>>
otherVars == <<clientVars, batchVars, utilVars>>
vars == <<netVars, clientVars, batchVars, utilVars>>

\* ev: op = the step, id = its call (or process), term / kill = the process
\* that was sent SIGTERM / SIGKILL by the step (0 = none), x = detail,
\* ok = the value a finished call reports to its caller (for a failed
\* attempt: whether it is retried).
Ev(op, id, term, kill, x, ok) ==
  [op |-> op, id |-> id, term |-> term, kill |-> kill, x |-> x, ok |-> ok]
NoEv == Ev("none", 0, 0, 0, "", TRUE)

\* Image URLs, already absolute (_ensureAbsoluteUrl returns them as they are).
ImageUrls == {"https://img.dlsite.jp/main.jpg", "https://img.dlsite.jp/stock.jpg"}
Imgs == 1..MaxImageCalls   \* downloadImage calls

\* What the constructor leaves apart from the network manager: an empty
\* image cache, and no call made.
ClientFresh ==
  /\ apiRequests = 0
  /\ imageCache = <<>>
  /\ imgRequests = [u \in ImageUrls |-> 0]
  /\ ipc = [k \in Imgs |-> "idle"]
  /\ iurl = [k \in Imgs |-> ""]
  /\ gpc = "idle"
  /\ requested = [entry |-> "", productId |-> "", internalId |-> 0]
  /\ basicInfo = {}
  /\ details = {}
  /\ urlsTried = <<>>
  /\ pageOk = {}
  /\ gameInfo = {}

\* State after `new DLSiteClient(networkManager)`.
ClientInit == networkManager = TRUE /\ ClientFresh

\* State after `new DLSiteClient()` (game-manager.js 151): the parameter is
\* undefined.
BareClientInit == networkManager = FALSE /\ ClientFresh

\* No makeBatchRequests call has been made.
BatchInit ==
  /\ bpc = "idle"
  /\ requests = 0
  /\ concurrency = 0
  /\ launched = {}
  /\ settled = {}
  /\ responded = {}
  /\ executing = <<>>
  /\ results = <<>>

\* No string helper has been called.
UtilInit ==
  /\ upc = "idle"
  /\ arg = <<>>
  /\ result = {}
  /\ threw = FALSE

\* State after `new NetworkManager()` (which constructs its OpenVPNManager).
NetInit ==
  /\ vpnProcess = 0
  /\ isConnected = FALSE
  /\ connectionStatus = "disconnected"
  /\ socksProxy = 0
  /\ authFilePath = FALSE
  /\ useVPN = FALSE
  /\ authFileExists = FALSE
  /\ proc = [c \in Calls |-> "none"]
  /\ timers = {}
  /\ floating = 0
  /\ cpc = [c \in Calls |-> "idle"]
  /\ dpc = [d \in Discs |-> "idle"]
  /\ rpc = [r \in Reqs |-> "idle"]
  /\ retryCount = [r \in Reqs |-> 0]
  /\ agent = [r \in Reqs |-> 0]
  /\ attempts = [r \in Reqs |-> 0]
  /\ track = [c \in Calls |-> "-"]
  /\ ev = NoEv

\* The tunnel process of an enableVPN(configPath) call that succeeded before
\* the calls of the behaviour were made.  Processes spawned by the calls of
\* the behaviour are numbered from 1 and stay below MaxCalls.
OldProcess == MaxCalls

\* State after that enableVPN call resolved (lines 124, 138-139 of
\* openvpn-manager.js and 18 of network-manager.js); the proxy handle is set
\* if the probe of setupSocksProxy answered ok.
EstablishedNet ==
  /\ vpnProcess = OldProcess
  /\ isConnected = TRUE
  /\ connectionStatus = "connected"
  /\ socksProxy \in {0, OldProcess}
  /\ authFilePath = FALSE
  /\ useVPN = TRUE
  /\ authFileExists = FALSE
  /\ proc = [c \in Calls |-> IF c = OldProcess THEN "running" ELSE "none"]
  /\ timers = {}
  /\ floating = 0
  /\ cpc = [c \in Calls |-> "idle"]
  /\ dpc = [d \in Discs |-> "idle"]
  /\ rpc = [r \in Reqs |-> "idle"]
  /\ retryCount = [r \in Reqs |-> 0]
  /\ agent = [r \in Reqs |-> 0]
  /\ attempts = [r \in Reqs |-> 0]
  /\ track = [c \in Calls |-> "-"]
  /\ ev = NoEv

\* The application with its VPN up.
EstablishedInit == EstablishedNet /\ ClientInit /\ BatchInit /\ UtilInit

\* The application with a DLSiteClient that was given no network manager.
BareInit == NetInit /\ BareClientInit /\ BatchInit /\ UtilInit

\* The application after start-up.
Init == NetInit /\ ClientInit /\ BatchInit /\ UtilInit

\* ------------------------------------------------- OpenVPNManager: helpers

\* The status substrings parseOpenVpnOutput looks for.  An output chunk is
\* modelled by the set of those substrings it contains.
Markers == {"Initialization Sequence Completed", "CONNECTED,SUCCESS",
            "AUTH_FAILED", "RECONNECTING", "Connection refused"}
\* Chunks with one status line, and two chunks that carry two of them.
Chunks == {{m} : m \in Markers}
          \cup {{"AUTH_FAILED", "Initialization Sequence Completed"},
                {"RECONNECTING", "Connection refused"}}

\* A parser that reports a status name of its own for RECONNECTING.
ParsedStatusRetrying(output, old) ==
  IF "Initialization Sequence Completed" \in output THEN "connected"
  ELSE IF "CONNECTED,SUCCESS" \in output THEN "connected"
  ELSE IF "AUTH_FAILED" \in output THEN "auth_failed"
  ELSE IF "RECONNECTING" \in output THEN "retrying"
  ELSE IF "Connection refused" \in output THEN "connection_refused"
  ELSE old

\* parseOpenVpnOutput: the connectionStatus after a chunk (if / else-if chain).
ParsedStatus(output, old) ==
  IF "Initialization Sequence Completed" \in output THEN "connected"
  ELSE IF "CONNECTED,SUCCESS" \in output THEN "connected"
  ELSE IF "AUTH_FAILED" \in output THEN "auth_failed"
  ELSE IF "RECONNECTING" \in output THEN "reconnecting"
  ELSE IF "Connection refused" \in output THEN "connection_refused"
  ELSE old

\* parseOpenVpnOutput: isConnected after a chunk; only the two success
\* branches write it.
ParsedIsConnected(output, old) ==
  IF "Initialization Sequence Completed" \in output THEN TRUE
  ELSE IF "CONNECTED,SUCCESS" \in output THEN TRUE
  ELSE old

\* The states the poll of waitForConnection rejects on.
TerminalFailure == {"error", "auth_failed", "connection_refused"}

\* One tick of the checkInterval of waitForConnection.
WaitOutcome(status) ==
  IF status = "connected" THEN "resolve"
  ELSE IF status \in TerminalFailure THEN "reject"
  ELSE "pending"

\* A wait without the 30 s timeout.
WaitNeverTimesOut(c) == FALSE

\* The 30 s timer of waitForConnection is armed for every wait.
WaitTimeoutArmed(c) == cpc[c] = "waiting"

\* setupSocksProxy: the proxy handle after the probe of call c answered.
\* "ok" = response.ok and its JSON body read; "notok" = non-success response;
\* "error" = fetch or response.json() threw.
ProbeOutcomes == {"ok", "notok", "error"}

\* A setupSocksProxy that keeps the handle whatever the probe answered.
ProxyKeptAfterProbe(outcome, current) == current

\* setupSocksProxy: the handle is kept on "ok" and reset to null otherwise.

ProxyAfterProbe(outcome, current) == IF outcome = "ok" THEN current ELSE 0

\* fs.unlink succeeds on an existing file and fails (ENOENT) on a missing one.
UnlinkOk == authFileExists

\* cleanupAuthFile after fs.unlink settled: the path is dropped only in the
\* success branch of the try.
PathAfterUnlink(ok, path) == IF ok THEN FALSE ELSE path

\* disconnect sends SIGTERM to the process it holds, if any.
SigtermTarget == vpnProcess

\* disconnect arms the 5 s escalation timer together with the SIGTERM.
TimersAfterDisconnect == IF vpnProcess # 0 THEN timers \cup {vpnProcess} ELSE timers

\* The 5 s timer callback: SIGKILL goes to whatever this.vpnProcess holds
\* when the timer fires.
SigkillTarget == vpnProcess

\* disconnect() returns true unless its try block throws; kill with a valid
\* signal name and cleanup() (whose unlink error is caught) do not throw.
DisconnectResult == TRUE

\* A disconnect() that returns without resetting the status.
StatusLeftDisconnecting == "disconnecting"

\* The status disconnect() leaves when it returns.
StatusAfterDisconnect == "disconnected"

\* getStatus (311-319), without the log lines.
getStatus ==
  [isConnected |-> isConnected, status |-> connectionStatus,
   hasSocksProxy |-> socksProxy # 0, processRunning |-> vpnProcess # 0]

\* The fully disconnected controller: the state a completed disconnect leaves.
AlreadyDisconnected ==
  /\ connectionStatus = "disconnected"
  /\ ~isConnected
  /\ vpnProcess = 0
  /\ socksProxy = 0

\* Number of calls made so far.
Made(pcs) == Cardinality({i \in DOMAIN pcs : pcs[i] # "idle"})
CallsMade == Made(cpc) + Made(dpc) + Made(rpc)

\* Calls are numbered in the order they are made.
NextIdle(pcs, i) ==
  /\ CallsMade < MaxCalls
  /\ pcs[i] = "idle"
  /\ \A k \in DOMAIN pcs : k < i => pcs[k] # "idle"

\* Observation of the wait of call c: "F" once the status is a terminal
\* failure state, "C" once it is connected, whichever comes first while
\* waitForConnection of c is pending.  It is kept for a call that resolves.
Observe ==
  track' = [c \in Calls |->
              IF cpc'[c] \notin {"waiting", "probing", "resolved"} THEN "-"
              ELSE IF track[c] # "-" THEN track[c]
              ELSE IF connectionStatus' \in TerminalFailure THEN "F"
              ELSE IF connectionStatus' = "connected" THEN "C"
              ELSE "-"]

\* ------------------------------------------ OpenVPNManager: connectToVPN

\* The catch block of connectToVPN (144-149) running disconnect() (275-303)
\* and cleanup() (305-309) up to fs.unlink, then the catch of enableVPN.
\* connectionStatus = 'error' and 'disconnecting' are overwritten before the
\* code yields unless an unlink is awaited.
Fail(c, why) ==
  /\ timers' = TimersAfterDisconnect
  /\ vpnProcess' = 0
  /\ socksProxy' = 0
  /\ IF authFilePath
       THEN /\ connectionStatus' = "disconnecting"
            /\ cpc' = [cpc EXCEPT ![c] = "unlinking"]
            /\ ev' = Ev("connect.catch", c, SigtermTarget, 0, why, TRUE)
            /\ UNCHANGED <<isConnected, useVPN>>
       ELSE /\ connectionStatus' = StatusAfterDisconnect
            /\ isConnected' = FALSE
            /\ cpc' = [cpc EXCEPT ![c] = "rejected"]
            /\ useVPN' = FALSE
            /\ ev' = Ev("connect.rejected", c, SigtermTarget, 0, why, FALSE)
  /\ UNCHANGED <<authFilePath, authFileExists, proc, floating, dpc, reqVars>>

\* connectToVPN lines 124-130: spawn and setupProcessHandlers.
Spawn(c) ==
  /\ vpnProcess' = c
  /\ proc' = [proc EXCEPT ![c] = "running"]
  /\ cpc' = [cpc EXCEPT ![c] = "waiting"]

\* enableVPN -> connectToVPN up to `await findOpenVpnExecutable()`.
ConnectStart(c) ==
  /\ NextIdle(cpc, c)
  /\ Made(cpc) < MaxConnects
  /\ IF isConnected
       THEN Fail(c, "VPN ist bereits verbunden")
       ELSE /\ connectionStatus' = "connecting"
            /\ cpc' = [cpc EXCEPT ![c] = "finding"]
            /\ ev' = NoEv
            /\ UNCHANGED <<vpnProcess, isConnected, socksProxy, authFilePath, useVPN,
                           envVars, dpc, reqVars>>
  /\ Observe
  /\ UNCHANGED otherVars

\* findOpenVpnExecutable settled; with credentials createAuthFile runs up to
\* fs.writeFile, without them the process is spawned.
FindDone(c, found, creds) ==
  /\ cpc[c] = "finding"
  /\ IF ~found
       THEN Fail(c, "OpenVPN executable nicht gefunden")
       ELSE /\ IF creds
                 THEN /\ authFilePath' = TRUE
                      /\ cpc' = [cpc EXCEPT ![c] = "writing"]
                      /\ UNCHANGED <<vpnProcess, proc>>
                 ELSE /\ Spawn(c)
                      /\ UNCHANGED authFilePath
            /\ ev' = NoEv
            /\ UNCHANGED <<isConnected, connectionStatus, socksProxy, useVPN,
                           authFileExists, timers, floating,
                           dpc, reqVars>>
  /\ Observe
  /\ UNCHANGED otherVars

\* fs.writeFile of createAuthFile settled.
WriteDone(c, ok) ==
  /\ cpc[c] = "writing"
  /\ IF ~ok
       THEN Fail(c, "writeFile")
       ELSE /\ authFileExists' = TRUE
            /\ Spawn(c)
            /\ ev' = NoEv
            /\ UNCHANGED <<isConnected, connectionStatus, socksProxy, authFilePath,
                           useVPN, timers, floating, dpc, reqVars>>
  /\ Observe
  /\ UNCHANGED otherVars

\* A tick of checkInterval that settles the wait; on resolve setupSocksProxy
\* builds the agent and starts the probe.
Poll(c) ==
  /\ cpc[c] = "waiting"
  /\ WaitOutcome(connectionStatus) # "pending"
  /\ IF WaitOutcome(connectionStatus) = "reject"
       THEN Fail(c, "VPN-Verbindung fehlgeschlagen")
       ELSE /\ socksProxy' = c
            /\ cpc' = [cpc EXCEPT ![c] = "probing"]
            /\ ev' = NoEv
            /\ UNCHANGED <<vpnProcess, isConnected, connectionStatus, authFilePath,
                           useVPN, envVars, dpc, reqVars>>
  /\ Observe
  /\ UNCHANGED otherVars

\* The 30 s timeout of waitForConnection.
WaitTimeout(c) ==
  /\ WaitTimeoutArmed(c)
  /\ cpc[c] = "waiting"
  /\ Fail(c, "VPN-Verbindung Timeout")
  /\ Observe
  /\ UNCHANGED otherVars

\* The probe of setupSocksProxy settled; connectToVPN and enableVPN finish.
ProbeDone(c, outcome) ==
  /\ cpc[c] = "probing"
  /\ socksProxy' = ProxyAfterProbe(outcome, socksProxy)
  /\ isConnected' = TRUE
  /\ connectionStatus' = "connected"
  /\ cpc' = [cpc EXCEPT ![c] = "resolved"]
  /\ useVPN' = TRUE
  /\ ev' = Ev("connect.resolved", c, 0, 0, outcome, TRUE)
  /\ UNCHANGED <<vpnProcess, authFilePath, envVars, dpc, reqVars>>
  /\ Observe
  /\ UNCHANGED otherVars

\* fs.unlink of the disconnect() in the catch block settled.
ConnectUnlinkDone(c) ==
  /\ cpc[c] = "unlinking"
  /\ authFilePath' = PathAfterUnlink(UnlinkOk, authFilePath)
  /\ authFileExists' = FALSE
  /\ connectionStatus' = StatusAfterDisconnect
  /\ isConnected' = FALSE
  /\ cpc' = [cpc EXCEPT ![c] = "rejected"]
  /\ useVPN' = FALSE
  /\ ev' = Ev("connect.rejected", c, 0, 0, "unlinked", FALSE)
  /\ UNCHANGED <<vpnProcess, socksProxy, proc, timers, floating,
                 dpc, reqVars>>
  /\ Observe
  /\ UNCHANGED otherVars

\* ------------------------------------- OpenVPNManager: child-process events

\* stdout / stderr 'data' handler (177-187): parseOpenVpnOutput on a chunk.
Output(c, output) ==
  /\ proc[c] = "running"
  /\ connectionStatus' = ParsedStatus(output, connectionStatus)
  /\ isConnected' = ParsedIsConnected(output, isConnected)
  /\ ev' = NoEv
  /\ UNCHANGED <<vpnProcess, socksProxy, authFilePath, useVPN, envVars,
                 cpc, dpc, reqVars>>
  /\ Observe
  /\ UNCHANGED otherVars

\* 'error' handler (189-193).
ProcError(c) ==
  /\ proc[c] = "running"
  /\ connectionStatus' = "error"
  /\ isConnected' = FALSE
  /\ ev' = NoEv
  /\ UNCHANGED <<vpnProcess, socksProxy, authFilePath, useVPN, envVars,
                 cpc, dpc, reqVars>>
  /\ Observe
  /\ UNCHANGED otherVars

\* 'exit' handler (195-200); its cleanup() is not awaited, so the fs.unlink
\* it may start is left in flight.
ProcExit(c) ==
  /\ proc[c] = "running"
  /\ proc' = [proc EXCEPT ![c] = "exited"]
  /\ connectionStatus' = "disconnected"
  /\ isConnected' = FALSE
  /\ vpnProcess' = 0
  /\ socksProxy' = 0
  /\ floating' = IF authFilePath THEN floating + 1 ELSE floating
  /\ ev' = NoEv
  /\ UNCHANGED <<authFilePath, useVPN, authFileExists, timers,
                 cpc, dpc, reqVars>>
  /\ Observe
  /\ UNCHANGED otherVars

\* fs.unlink of an un-awaited cleanup() settled.
FloatingUnlinkDone ==
  /\ floating > 0
  /\ floating' = floating - 1
  /\ authFilePath' = PathAfterUnlink(UnlinkOk, authFilePath)
  /\ authFileExists' = FALSE
  /\ ev' = NoEv
  /\ UNCHANGED <<vpnProcess, isConnected, connectionStatus, socksProxy, useVPN,
                 proc, timers, cpc, dpc, reqVars>>
  /\ Observe
  /\ UNCHANGED otherVars

\* The setTimeout callback of disconnect (284-288), 5 s after the SIGTERM
\* sent to process p.
KillTimerFire(p) ==
  /\ p \in timers
  /\ timers' = timers \ {p}
  /\ ev' = Ev("killtimer", p, 0, SigkillTarget, proc[p], TRUE)
  /\ UNCHANGED <<vpnVars, useVPN, authFileExists, proc, floating,
                 cpc, dpc, reqVars>>
  /\ Observe
  /\ UNCHANGED otherVars

\* ------------------------------------------- NetworkManager: disableVPN

\* disableVPN -> disconnect() up to fs.unlink; without a credential path the
\* call runs to its end.
DisableStart(d) ==
  /\ NextIdle(dpc, d)
  /\ timers' = TimersAfterDisconnect
  /\ vpnProcess' = 0
  /\ socksProxy' = 0
  /\ IF authFilePath
       THEN /\ connectionStatus' = "disconnecting"
            /\ dpc' = [dpc EXCEPT ![d] = IF AlreadyDisconnected THEN "unlinking.idem"
                                                                ELSE "unlinking"]
            /\ ev' = Ev("disconnect.start", d, SigtermTarget, 0,
                        IF AlreadyDisconnected THEN "idem" ELSE "", TRUE)
            /\ UNCHANGED <<isConnected, useVPN>>
       ELSE /\ connectionStatus' = StatusAfterDisconnect
            /\ isConnected' = FALSE
            /\ dpc' = [dpc EXCEPT ![d] = "done"]
            /\ useVPN' = FALSE
            /\ ev' = Ev("disconnect.done", d, SigtermTarget, 0,
                        IF AlreadyDisconnected THEN "idem" ELSE "", DisconnectResult)
  /\ UNCHANGED <<authFilePath, authFileExists, proc, floating, cpc, reqVars>>
  /\ Observe
  /\ UNCHANGED otherVars

\* fs.unlink of cleanupAuthFile settled; disconnect() and disableVPN finish.
\* The step is marked "idem" when the call began fully disconnected and
\* nothing touched the handles or the status while it waited.
DisableUnlinkDone(d) ==
  /\ dpc[d] \in {"unlinking", "unlinking.idem"}
  /\ authFilePath' = PathAfterUnlink(UnlinkOk, authFilePath)
  /\ authFileExists' = FALSE
  /\ connectionStatus' = StatusAfterDisconnect
  /\ isConnected' = FALSE
  /\ dpc' = [dpc EXCEPT ![d] = "done"]
  /\ useVPN' = FALSE
  /\ ev' = Ev("disconnect.done", d, 0, 0,
              IF dpc[d] = "unlinking.idem" /\ vpnProcess = 0 /\ socksProxy = 0
                 /\ connectionStatus = "disconnecting"
                THEN "idem" ELSE "", DisconnectResult)
  /\ UNCHANGED <<vpnProcess, socksProxy, proc, timers, floating,
                 cpc, reqVars>>
  /\ Observe
  /\ UNCHANGED otherVars

\* -------------------------------------------- NetworkManager: makeRequest

\* What fetch() can settle with.  An error is the pair (code, message) that
\* shouldRetry reads; a message is a sequence of words.
Responses == {200, 404, 500}
Errors ==
  { [code |-> "ECONNRESET", message |-> <<"read", "ECONNRESET">>],
    [code |-> "ETIMEDOUT",  message |-> <<"timed", "out">>],
    [code |-> "",           message |-> <<"reason:", "socket", "hang", "up">>],
    [code |-> "ENOTFOUND",  message |-> <<"getaddrinfo", "ENOTFOUND">>],
    [code |-> "",           message |-> <<"network", "timeout", "at:", "url">>] }

\* shouldRetry lines 99-105.
retryableErrors ==
  { <<"ECONNRESET">>, <<"ETIMEDOUT">>, <<"ECONNREFUSED">>, <<"EHOSTUNREACH">>,
    <<"socket", "hang", "up">> }

\* String.prototype.includes on word sequences.
Includes(message, err) ==
  \E i \in 1..Len(message) :
    /\ i + Len(err) - 1 <= Len(message)
    /\ SubSeq(message, i, i + Len(err) - 1) = err

\* A shouldRetry that takes every failure for a transient one.
shouldRetryAlways(error) == TRUE

\* shouldRetry lines 107-109.
shouldRetry(error) ==
  \E err \in retryableErrors :
    Includes(error.message, err) \/ <<error.code>> = err

\* A retry guard that also admits retryCount = maxRetries.
CanRetryInclusive(rc) == rc <= maxRetries

\* The retry guard of the catch block (87), first conjunct.
CanRetry(rc) == rc < maxRetries

\* A routing decision that looks at the handle only, not at the useVPN flag.
AgentForAttemptAnyHandle(current) ==
  IF socksProxy # 0 THEN socksProxy ELSE current

\* Lines 62-69: options.agent after the routing decision of an attempt.
\* Without the flag or without a handle the options object is left as it is.
AgentForAttempt(current) ==
  IF useVPN /\ socksProxy # 0 THEN socksProxy ELSE current

\* makeRequest(url, options) up to fetch(); options is a fresh object.
RequestStart(r) ==
  /\ NextIdle(rpc, r)
  /\ agent' = [agent EXCEPT ![r] = AgentForAttempt(0)]
  /\ attempts' = [attempts EXCEPT ![r] = @ + 1]
  /\ rpc' = [rpc EXCEPT ![r] = "inflight"]
  /\ ev' = Ev("dispatch", r, 0, 0, 1, TRUE)
  /\ UNCHANGED <<vpnVars, useVPN, envVars, cpc, dpc, track, retryCount>>
  /\ UNCHANGED otherVars

\* The fields of a call that is still running; they go with its frame.
Frame(f, r, done) == [f EXCEPT ![r] = IF done THEN 0 ELSE @]

\* fetch() resolved with a response of any status: it is returned.
AttemptResponse(r, status) ==
  /\ rpc[r] = "inflight"
  /\ rpc' = [rpc EXCEPT ![r] = "returned"]
  /\ retryCount' = Frame(retryCount, r, TRUE)
  /\ agent' = Frame(agent, r, TRUE)
  /\ attempts' = Frame(attempts, r, TRUE)
  /\ ev' = Ev("response", r, 0, 0, [status |-> status, attempt |-> attempts[r]], TRUE)
  /\ UNCHANGED <<vpnVars, useVPN, envVars, cpc, dpc, track>>
  /\ UNCHANGED otherVars

\* fetch() rejected: the catch block either starts the 2 s delay or rethrows.
AttemptError(r, error) ==
  /\ rpc[r] = "inflight"
  /\ LET retry == CanRetry(retryCount[r]) /\ shouldRetry(error) IN
       /\ rpc' = [rpc EXCEPT ![r] = IF retry THEN "backoff" ELSE "thrown"]
       /\ retryCount' = Frame(retryCount, r, ~retry)
       /\ agent' = Frame(agent, r, ~retry)
       /\ attempts' = Frame(attempts, r, ~retry)
       /\ ev' = Ev("error", r, 0, 0, [error |-> error, attempt |-> attempts[r]], retry)
  /\ UNCHANGED <<vpnVars, useVPN, envVars, cpc, dpc, track>>
  /\ UNCHANGED otherVars

\* delay(2000) elapsed: makeRequest(url, options, retryCount + 1) runs up to
\* fetch() on the same options object.
BackoffDone(r) ==
  /\ rpc[r] = "backoff"
  /\ retryCount' = [retryCount EXCEPT ![r] = @ + 1]
  /\ agent' = [agent EXCEPT ![r] = AgentForAttempt(agent[r])]
  /\ attempts' = [attempts EXCEPT ![r] = @ + 1]
  /\ rpc' = [rpc EXCEPT ![r] = "inflight"]
  /\ ev' = Ev("dispatch", r, 0, 0, attempts[r] + 1, TRUE)
  /\ UNCHANGED <<vpnVars, useVPN, envVars, cpc, dpc, track>>
  /\ UNCHANGED otherVars

RequestStep ==
  \/ \E r \in Reqs : RequestStart(r)
  \/ \E r \in Reqs, st \in Responses : AttemptResponse(r, st)
  \/ \E r \in Reqs, e \in Errors : AttemptError(r, e)
  \/ \E r \in Reqs : BackoffDone(r)

\* ------------------------------------------------- DLSiteClient: JS values

\* Strings stand for themselves; undefined and null are two marked strings.
Undefined == "<undefined>"
Null == "<null>"
\* A list-valued property that is not set.
NoList == <<Undefined>>

\* ToBoolean on the values above.
Truthy(v) == v \notin {Undefined, Null, ""}
\* a || b
Or(a, b) == IF Truthy(a) THEN a ELSE b
\* `${v}` in a template literal.
Str(v) == IF v = Null THEN "null" ELSE IF v = Undefined THEN "undefined" ELSE v
\* obj && obj.f for an object that may be undefined ({}): a missing object
\* or a missing property both read as a falsy value.
Field(obj, f) == IF obj = {} THEN Undefined ELSE (CHOOSE o \in obj : TRUE)[f]
ListField(obj, f) == IF obj = {} THEN NoList ELSE (CHOOSE o \in obj : TRUE)[f]

\* String.prototype.toLowerCase on the product ids of the model.
toLowerCase(s) ==
  CASE s = "RJ01347095" -> "rj01347095"
    [] s = "rj01347095" -> "rj01347095"
    [] OTHER -> s
\* String(internalId).padStart(5, '0')
padStart5(n) ==
  IF n < 10 THEN "0000" \o ToString(n)
  ELSE IF n < 100 THEN "000" \o ToString(n)
  ELSE ToString(n)

\* Array.prototype.filter(x => !excluded.includes(x))
Without(list, excluded) == SelectSeq(list, LAMBDA x : x \notin excluded)

\* [...new Set(list)]: the first occurrence of every value, in order.
RECURSIVE Unique(_)
Unique(list) ==
  IF list = <<>> THEN <<>>
  ELSE LET front == Unique(SubSeq(list, 1, Len(list) - 1))
           last == list[Len(list)]
       IN IF \E i \in DOMAIN front : front[i] = last THEN front
          ELSE Append(front, last)

\* -------------------------------------------- DLSiteClient: createGameInfo

\* createGameInfo lines 701-708.
excludeFromGenres ==
  {"R18", "All-ages",
   "Role-playing", "Visual Novel", "Simulation", "Adventure", "Action", "Strategy",
   "Voice", "Music", "Sound",
   "Application", "HTML", "Flash", "Unity",
   "Japanese", "English", "Chinese", "Korean",
   "Windows", "Mac", "Android", "iOS"}

\* createGameInfo line 716, the list the tags are filtered against.
excludeFromTags == {"R18", "Application", "Japanese", "Role-playing", "Voice"}

\* Lines 677-678.
ProductIdOf(basic, det) ==
  IF Truthy(Field(basic, "product_id")) THEN Field(basic, "product_id")
  ELSE IF Truthy(Field(det, "productId")) THEN Field(det, "productId")
  ELSE Null

\* generateGameId (555-568); fallbackId is the `dlsite_<time>_<random>` string
\* drawn when no product id is known.
generateGameId(productId, internalId, fallbackId) ==
  IF ~Truthy(productId) THEN fallbackId
  ELSE (IF internalId # 0 THEN padStart5(internalId) \o "_" ELSE "")
         \o "dlsite_" \o toLowerCase(productId)

\* A genre list that is passed on as the page gave it.
unfilteredGenres(det) ==
  IF ListField(det, "genre") # NoList THEN ListField(det, "genre") ELSE <<>>

\* Lines 698-710.
filteredGenres(det) ==
  IF ListField(det, "genre") # NoList
    THEN Without(ListField(det, "genre"), excludeFromGenres)
    ELSE <<>>

\* Lines 713-716.
allTags(det) ==
  Unique(filteredGenres(det)
           \o (IF ListField(det, "tags") # NoList
                 THEN Without(ListField(det, "tags"), excludeFromTags)
                 ELSE <<>>))

\* The image createGameInfo downloads (691-695): Undefined if there is none.
CoverUrl(basic, det) ==
  IF Truthy(Field(det, "coverImage")) THEN Field(det, "coverImage")
  ELSE Field(basic, "work_image")

\* Line 720 reads details.product_format without a guard: a TypeError when
\* details is undefined.
createGameInfoThrows(det) == det = {}

\* The object literal of lines 724-765 (the properties not listed here are
\* built like developer or releaseDate: a chain of guarded reads that ends
\* in a string literal or an empty list).
GameInfoRecord(basic, det, internalId, coverImagePath, fallbackId) ==
  LET productId == ProductIdOf(basic, det) IN
  [ id |-> generateGameId(productId, internalId, fallbackId),
    title |-> Or(Field(det, "work_name"),
                 Or(Field(basic, "work_name"), "DLSite Game " \o Str(productId))),
    developer |-> Or(Field(det, "circle"),
                     Or(Field(basic, "maker_name"), "Unknown Developer")),
    genre |-> IF Len(filteredGenres(det)) > 0 THEN filteredGenres(det)[1]
              ELSE "Visual Novel",
    description |-> Or(Field(det, "description"),
                       Or(Field(basic, "description"),
                          "A game from DLSite with ID " \o Str(productId))),
    coverImage |-> Or(coverImagePath, ""),
    dlsiteId |-> productId,
    dlsiteCircle |-> Or(Field(det, "circle"), Field(basic, "maker_name")),
    dlsiteTags |-> allTags(det),
    dlsiteVoiceActors |-> IF ListField(det, "voice_actor") # NoList
                            THEN ListField(det, "voice_actor") ELSE <<>>,
    genreList |-> filteredGenres(det) ]

\* ------------------------------------------------- DLSiteClient: inputs

ProductIds == {"RJ01347095"}
\* internalId: 0 stands for null (the default).
InternalIds == {0, 7}

\* data[productId] of the AJAX API answer (getProductInfo 146-157).  Whether
\* the object carries a product_id of its own is up to the server.
ApiRecord(pid, img) ==
  [product_id |-> pid, work_name |-> "Example Title", maker_name |-> "Example Circle",
   work_image |-> img, description |-> Undefined]
ApiRecords(P) ==
  {ApiRecord(pid, img) : pid \in {Undefined, P},
                         img \in {Undefined, "https://img.dlsite.jp/main.jpg"}}
\* getProductInfo fails when makeRequest throws ("error"), when the answer is
\* not ok ("notok") and when the JSON holds no entry for the id ("nokey").
ApiFailures == {"error", "notok", "nokey"}

\* getGameInfo line 816: the stand-in for a failed getProductInfo.
BasicInfoFallback(P) ==
  [product_id |-> P, work_name |-> Undefined, maker_name |-> Undefined,
   work_image |-> Undefined, description |-> Undefined]

\* The genre lists of the work pages of the model; NoList is a page without
\* a Genre row.
GenreLists ==
  {NoList, <<>>, <<"R18", "Adventure", "Drama">>, <<"All-ages", "Drama">>,
   <<"Windows", "R18">>, <<"Drama", "Horror", "Drama">>}

\* A work page, given by what parseWorkHTML finds in it.  `empty` is a
\* response whose body is the empty string.
Page(empty, name, cover, genre) ==
  [empty |-> empty, work_name |-> name,
   circle |-> IF name = "" THEN "" ELSE "Example Circle",
   coverImage |-> cover, genre |-> genre]
Pages ==
  {Page(TRUE, "", Undefined, NoList)}
    \cup {Page(FALSE, n, c, g) : n \in {"", "Example Title"},
                                 c \in {Undefined, "https://img.dlsite.jp/main.jpg"},
                                 g \in GenreLists}

\* parseWorkHTML (258-546): work_name and circle are always set (possibly to
\* ''), coverImage and genre only when found, tags is a copy of genre
\* (527-528); no productId is ever set.
parseWorkHTML(page) ==
  [productId |-> Undefined, work_name |-> page.work_name, circle |-> page.circle,
   coverImage |-> page.coverImage, genre |-> page.genre,
   tags |-> IF page.genre = NoList THEN <<>> ELSE page.genre,
   voice_actor |-> IF page.work_name = "" THEN NoList ELSE <<"Jane Doe">>,
   description |-> ""]

\* A stand-in for a failed getWorkDetails that forgets the requested id.
DetailsFallbackEmpty(P) ==
  [productId |-> Undefined, work_name |-> Undefined, circle |-> Undefined,
   coverImage |-> Undefined, genre |-> NoList, tags |-> NoList,
   voice_actor |-> NoList, description |-> Undefined]

\* getGameInfo line 830: the stand-in for a failed getWorkDetails.
DetailsFallback(P) ==
  [productId |-> P, work_name |-> Undefined, circle |-> Undefined,
   coverImage |-> Undefined, genre |-> NoList, tags |-> NoList,
   voice_actor |-> NoList, description |-> Undefined]

\* getWorkDetails lines 187-199: the candidate pages, by position in `urls`:
\* 1 = .../work/=/product_id/<id>.html, 2 = .../announce/=/product_id/<id>.html
Candidates == <<"work", "announce">>

\* What a page request can come to: makeRequest threw, or a response.
PageFailures == {"error", "notok"}

\* The `dlsite_<time>_<random>` ids generateGameId can draw.
FallbackIds == {"dlsite_1700000000000_k3x9qa", "dlsite_1700000000001_p0z2mm"}

\* --------------------------------------------- DLSiteClient: downloadImage

\* Lines 593-603 and 626-638: the file name built from productId, internalId
\* and the extension of the URL (the URLs of the model end in .jpg and hold
\* no product id; internalId < 16 reads the same in hexadecimal).
webPath(productId, internalId) ==
  "assets/games/"
    \o (IF internalId # 0 THEN padStart5(internalId) ELSE "00001")
    \o "_dlsite_"
    \o (IF ~Truthy(productId) \/ productId \in {"undefined", "null"}
          THEN "unknown" ELSE productId)
    \o ".jpg"

\* A lookup that never finds an entry.
CacheNeverHits(url) == FALSE

\* Line 617: this.imageCache.has(cacheKey)
CacheHit(url) == url \in DOMAIN imageCache

\* Line 652: this.imageCache.set(cacheKey, webPath)
CacheSet(url, path) ==
  [u \in DOMAIN imageCache \cup {url} |-> IF u = url THEN path ELSE imageCache[u]]

\* What the image request can come to: a response that is ok and whose body
\* is read and written, a response that is not ok, or an exception
\* (makeRequest, response.buffer or writeFileSync threw).
ImageOutcomes == {"ok", "notok", "error"}

\* Calls are numbered in the order they are made.
NextImage(k) == ipc[k] = "idle" /\ \A j \in Imgs : j < k => ipc[j] # "idle"

\* downloadImage(imageUrl, productId) up to the await of _makeRequest, or to
\* its return when the cache holds the URL.
DownloadImageStart(k, url) ==
  /\ NextImage(k)
  /\ iurl' = [iurl EXCEPT ![k] = url]
  /\ IF CacheHit(url)
       THEN /\ ipc' = [ipc EXCEPT ![k] = "cached"]
            /\ UNCHANGED imgRequests
       ELSE /\ ipc' = [ipc EXCEPT ![k] = "fetching"]
            /\ imgRequests' = [imgRequests EXCEPT ![url] = @ + 1]
  /\ UNCHANGED <<imageCache, gpc, requested, basicInfo, details, urlsTried, pageOk,
                 gameInfo>>
  /\ UNCHANGED <<netVars, batchVars, utilVars, networkManager, apiRequests>>

\* The request of call k settled: the image is stored and cached, or the
\* catch block returns null.
DownloadImageDone(k, outcome, productId) ==
  /\ ipc[k] = "fetching"
  /\ IF outcome = "ok"
       THEN /\ imageCache' = CacheSet(iurl[k], webPath(productId, 0))
            /\ ipc' = [ipc EXCEPT ![k] = "downloaded"]
       ELSE /\ ipc' = [ipc EXCEPT ![k] = "null"]
            /\ UNCHANGED imageCache
  /\ UNCHANGED <<imgRequests, iurl, gpc, requested, basicInfo, details, urlsTried,
                 pageOk, gameInfo>>
  /\ UNCHANGED <<netVars, batchVars, utilVars, networkManager, apiRequests>>

\* ----------------------------- DLSiteClient: getGameInfo / createGameInfo

\* The ids generateGameId may return for want of a product id; one value
\* when the product id is known and nothing is drawn.
FallbackIdsFor(productId) ==
  IF Truthy(productId) THEN {"dlsite_1700000000000_k3x9qa"} ELSE FallbackIds

\* The object the catch block of getGameInfo returns (849-866); properties
\* it does not set read as undefined.
CatchRecord(P, internalId, fallbackId) ==
  [ id |-> generateGameId(P, internalId, fallbackId),
    title |-> "DLSite Game " \o Str(P),
    developer |-> "Unknown Developer",
    genre |-> "Visual Novel",
    description |-> "A game from DLSite with ID " \o Str(P),
    coverImage |-> "",
    dlsiteId |-> P,
    dlsiteCircle |-> Undefined,
    dlsiteTags |-> NoList,
    dlsiteVoiceActors |-> NoList,
    genreList |-> NoList ]

\* createGameInfo from line 720 to its end, with the cover image settled:
\* it returns its record or throws; a throw inside getGameInfo is caught there.
createGameInfoEnd(req, b, d, coverImagePath) ==
  IF createGameInfoThrows(d) /\ req.entry = "createGameInfo"
    THEN /\ gpc' = "threw"
         /\ UNCHANGED gameInfo
    ELSE /\ gpc' = "returned"
         /\ \E fb \in FallbackIdsFor(IF createGameInfoThrows(d)
                                       THEN req.productId
                                       ELSE ProductIdOf(b, d)) :
              gameInfo' =
                IF createGameInfoThrows(d)
                  THEN {CatchRecord(req.productId, req.internalId, fb)}
                  ELSE {GameInfoRecord(b, d, req.internalId, coverImagePath, fb)}

\* createGameInfo from its start (673) to the await of the image request, or
\* to its end when there is no image to fetch or the cache holds it.
createGameInfoBegin(req, b, d) ==
  LET url == CoverUrl(b, d) IN
    IF Truthy(url) /\ ~CacheHit(url)
      THEN /\ gpc' = "image"
           /\ imgRequests' = [imgRequests EXCEPT ![url] = @ + 1]
           /\ UNCHANGED gameInfo
      ELSE /\ UNCHANGED imgRequests
           /\ createGameInfoEnd(req, b, d, IF Truthy(url) THEN imageCache[url] ELSE Null)

\* getGameInfo(productId, 'maniax', internalId) up to the request of
\* getProductInfo.  getProductInfo (136) and getWorkDetails (211) call
\* this.networkManager.makeRequest, not _makeRequest: without a network
\* manager each call throws a TypeError before anything is submitted, the
\* catch blocks of 814-817 and 828-831 put in their stand-ins, and the
\* call runs on into createGameInfo without waiting for anything.
GetGameInfoStart(P, internalId) ==
  /\ gpc = "idle"
  /\ requested' = [entry |-> "getGameInfo", productId |-> P, internalId |-> internalId]
  /\ IF networkManager
       THEN /\ gpc' = "api"
            /\ apiRequests' = apiRequests + 1
            /\ UNCHANGED <<imgRequests, basicInfo, details, gameInfo>>
       ELSE /\ basicInfo' = {BasicInfoFallback(P)}
            /\ details' = {DetailsFallback(P)}
            /\ createGameInfoBegin(requested', basicInfo', details')
            /\ UNCHANGED apiRequests
  /\ UNCHANGED <<imageCache, ipc, iurl, urlsTried, pageOk>>
  /\ UNCHANGED <<netVars, batchVars, utilVars, networkManager>>

\* getProductInfo returned data[productId]; getWorkDetails requests its
\* first candidate.
ApiAnswered(record) ==
  /\ gpc = "api"
  /\ record \in ApiRecords(requested.productId)
  /\ basicInfo' = {record}
  /\ gpc' = "html"
  /\ urlsTried' = <<1>>
  /\ UNCHANGED <<imageCache, imgRequests, ipc, iurl, requested, details, pageOk,
                 gameInfo>>
  /\ UNCHANGED <<netVars, batchVars, utilVars, networkManager, apiRequests>>

\* getProductInfo threw; getGameInfo goes on with { product_id: productId }.
ApiFailed(why) ==
  /\ gpc = "api"
  /\ basicInfo' = {BasicInfoFallback(requested.productId)}
  /\ gpc' = "html"
  /\ urlsTried' = <<1>>
  /\ UNCHANGED <<imageCache, imgRequests, ipc, iurl, requested, details, pageOk,
                 gameInfo>>
  /\ UNCHANGED <<netVars, batchVars, utilVars, networkManager, apiRequests>>

\* The candidate requested last answered with response.ok: the loop of
\* getWorkDetails breaks.  An empty body leaves `html` falsy, so line 235
\* throws as if no candidate had answered.
PageAnswered(page) ==
  /\ gpc = "html"
  /\ pageOk' = pageOk \cup {urlsTried[Len(urlsTried)]}
  /\ details' = IF page.empty THEN {DetailsFallback(requested.productId)}
                ELSE {parseWorkHTML(page)}
  /\ createGameInfoBegin(requested, basicInfo, details')
  /\ UNCHANGED <<imageCache, ipc, iurl, requested, basicInfo, urlsTried>>
  /\ UNCHANGED <<netVars, batchVars, utilVars, networkManager, apiRequests>>

\* The candidate requested last failed (makeRequest threw, or the response
\* was not ok): the next candidate is requested, or getWorkDetails throws.
PageFailed(why) ==
  /\ gpc = "html"
  /\ IF Len(urlsTried) < Len(Candidates)
       THEN /\ urlsTried' = Append(urlsTried, urlsTried[Len(urlsTried)] + 1)
            /\ UNCHANGED <<gpc, details, imgRequests, gameInfo>>
       ELSE /\ details' = {DetailsFallback(requested.productId)}
            /\ createGameInfoBegin(requested, basicInfo, details')
            /\ UNCHANGED urlsTried
  /\ UNCHANGED <<imageCache, ipc, iurl, requested, basicInfo, pageOk>>
  /\ UNCHANGED <<netVars, batchVars, utilVars, networkManager, apiRequests>>

\* createGameInfo(basicInfo, details, internalId) called on its own.
CreateGameInfoCall(b, d, internalId) ==
  /\ gpc = "idle"
  /\ requested' = [entry |-> "createGameInfo", productId |-> Undefined,
                   internalId |-> internalId]
  /\ basicInfo' = b
  /\ details' = d
  /\ createGameInfoBegin(requested', b, d)
  /\ UNCHANGED <<imageCache, ipc, iurl, urlsTried, pageOk>>
  /\ UNCHANGED <<netVars, batchVars, utilVars, networkManager, apiRequests>>

\* The image request of createGameInfo's downloadImage settled.
CoverImageDone(outcome) ==
  /\ gpc = "image"
  /\ LET url == CoverUrl(basicInfo, details)
         path == webPath(ProductIdOf(basicInfo, details), requested.internalId)
     IN IF outcome = "ok"
          THEN /\ imageCache' = CacheSet(url, path)
               /\ createGameInfoEnd(requested, basicInfo, details, path)
          ELSE /\ UNCHANGED imageCache
               /\ createGameInfoEnd(requested, basicInfo, details, Null)
  /\ UNCHANGED <<imgRequests, ipc, iurl, requested, basicInfo, details, urlsTried,
                 pageOk>>
  /\ UNCHANGED <<netVars, batchVars, utilVars, networkManager, apiRequests>>

\* The objects createGameInfo can be handed.
BasicInfos ==
  {{}} \cup {{r} : r \in UNION {ApiRecords(P) \cup {BasicInfoFallback(P)} : P \in ProductIds}}
DetailsObjects ==
  {{}} \cup {{parseWorkHTML(pg)} : pg \in {q \in Pages : ~q.empty}}
       \cup {{DetailsFallback(P)} : P \in ProductIds}

\* downloadImage called on the client.
ImageStep ==
  \/ \E k \in Imgs, u \in ImageUrls : DownloadImageStart(k, u)
  \/ \E k \in Imgs, o \in ImageOutcomes, P \in ProductIds : DownloadImageDone(k, o, P)

\* getGameInfo or createGameInfo called on a client without a network
\* manager: no API or page request is ever pending; the cover image is
\* requested through _makeRequest, which falls back to fetch (112-113).
BareLookupStep ==
  \/ \E P \in ProductIds, i \in InternalIds : GetGameInfoStart(P, i)
  \/ \E b \in BasicInfos, d \in DetailsObjects, i \in InternalIds : CreateGameInfoCall(b, d, i)
  \/ \E o \in ImageOutcomes : CoverImageDone(o)

\* getGameInfo or createGameInfo called on the client.
LookupStep ==
  \/ \E P \in ProductIds, i \in InternalIds : GetGameInfoStart(P, i)
  \/ \E r \in UNION {ApiRecords(P) : P \in ProductIds} : ApiAnswered(r)
  \/ \E why \in ApiFailures : ApiFailed(why)
  \/ \E pg \in Pages : PageAnswered(pg)
  \/ \E why \in PageFailures : PageFailed(why)
  \/ \E b \in BasicInfos, d \in DetailsObjects, i \in InternalIds : CreateGameInfoCall(b, d, i)
  \/ \E o \in ImageOutcomes : CoverImageDone(o)

\* ------------------------------------------- IPC: 'enable-vpn', 'disable-vpn'

\* A JS value that is either a boolean or an object.
JsBoolean(b) == [type |-> "boolean", boolean |-> b]
JsObject(o) == [type |-> "object", object |-> o]
\* ToBoolean: every object is truthy.
ToBoolean(v) == IF v.type = "boolean" THEN v.boolean ELSE TRUE

\* What enableVPN returns (network-manager.js 21 and 27-31): an object in
\* both branches.
enableVPNReturn(connected, why) ==
  JsObject([success |-> connected,
            message |-> IF connected THEN "VPN verbunden" ELSE why])

\* What disableVPN returns (network-manager.js 42-46).
disableVPNReturn(disconnected) ==
  JsObject([success |-> disconnected,
            message |-> IF disconnected THEN "VPN getrennt"
                        ELSE "Fehler beim Trennen der VPN-Verbindung"])

\* The 'enable-vpn' handler (ipc-handlers.js 134-160) around the value
\* enableVPN resolved with; enableVPN catches its own errors, so the
\* handler's catch is not entered.
enableVpnHandler(success) ==
  [success |-> success,
   message |-> IF ToBoolean(success) THEN "VPN erfolgreich aktiviert"
               ELSE "VPN-Aktivierung fehlgeschlagen"]

\* The 'disable-vpn' handler (ipc-handlers.js 163-186).
disableVpnHandler(success) ==
  [success |-> success,
   message |-> IF ToBoolean(success) THEN "VPN erfolgreich deaktiviert"
               ELSE "VPN-Deaktivierung fehlgeschlagen"]

\* The step just taken completed an enableVPN / a disableVPN call.
EnableVpnCompleted == ev.op \in {"connect.resolved", "connect.rejected"}
DisableVpnCompleted == ev.op = "disconnect.done"

\* The result the handler that made the completed call hands to the renderer.
IpcReply ==
  IF EnableVpnCompleted THEN enableVpnHandler(enableVPNReturn(ev.ok, ev.x))
  ELSE disableVpnHandler(disableVPNReturn(ev.ok))

\* ------------------------------------- NetworkManager: makeBatchRequests

\* The concurrency arguments of the model (3 is the default).
Concurrencies == 1..3

\* executing.splice(executing.findIndex(p => p === promise), 1): the entry
\* of the current iteration is taken out.
Splice(exec, promise) == SelectSeq(exec, LAMBDA p : p # promise)

\* Promise.race(executing) is already decided when one of the entries has
\* settled; its await then resumes without waiting for any event.
RaceDecided(exec, sett) == \E k \in DOMAIN exec : exec[k] \in sett

\* The for loop of lines 141-163 from the iteration of request i (counted
\* from 0) until it has to wait for the race or runs out of requests.
\* makeRequest is called for every request the loop reaches (142); only the
\* requests from index `concurrency` on are pushed to `executing` (155-156).
RECURSIVE RunLoop(_, _, _, _, _)
RunLoop(i, n, c, exec, sett) ==
  IF i >= n THEN [launched |-> 0..(n - 1), executing |-> exec, waiting |-> FALSE]
  ELSE IF i >= c
    THEN LET pushed == Append(exec, i) IN
         IF Len(pushed) >= c
           THEN IF RaceDecided(pushed, sett)
                  THEN RunLoop(i + 1, n, c, Splice(pushed, i), sett)
                  ELSE [launched |-> 0..i, executing |-> pushed, waiting |-> TRUE]
           ELSE RunLoop(i + 1, n, c, pushed, sett)
    ELSE RunLoop(i + 1, n, c, exec, sett)

\* The requests whose makeRequest call has not settled yet.
InFlight == launched \ settled

\* Where the call stands after the loop ran as far as `run` says.
BatchPosition(run, n, sett) ==
  IF run.waiting THEN "racing"
  ELSE IF (0..(n - 1)) \subseteq sett THEN "returned"
  ELSE "gathering"

\* The URL of request i.
UrlOf(i) == i

\* A then handler that is also used for rejections.
ThenForBoth(i, ok) == [url |-> UrlOf(i), success |-> TRUE]

\* The value the promise of request i settles with: the then handler
\* (143-147) after a response, the catch handler (148-152) after an error.
ThenCatch(i, ok) == [url |-> UrlOf(i), success |-> ok]

\* results.push(promise) (154) for the requests launched from index `from`
\* to index `to`, in the order of the loop.
RECURSIVE Pushed(_, _, _)
Pushed(res, from, to) ==
  IF from > to THEN res
  ELSE Pushed(Append(res, [request |-> from, value |-> {}]), from + 1, to)

\* The number of makeRequest calls made so far.
LaunchCount(l) == Cardinality(l)

\* makeBatchRequests(requests, concurrency) with n requests, up to its first
\* await on an undecided promise.
BatchStart(n, c) ==
  /\ bpc = "idle"
  /\ requests' = n
  /\ concurrency' = c
  /\ LET run == RunLoop(0, n, c, <<>>, {}) IN
       /\ launched' = run.launched
       /\ executing' = run.executing
       /\ results' = Pushed(<<>>, 0, LaunchCount(run.launched) - 1)
       /\ bpc' = BatchPosition(run, n, {})
  /\ UNCHANGED <<settled, responded>>
  /\ UNCHANGED <<netVars, clientVars, utilVars>>

\* The makeRequest call of request i settled, with a response (ok) or an
\* error; both become a result object.  If the loop was waiting for the race and
\* i is one of `executing`, the loop goes on: the entry of the iteration
\* that waited is spliced out and the next requests are launched.  If
\* Promise.all was waiting for the last result, the call returns.
RequestSettled(i, ok) ==
  /\ i \in InFlight
  /\ settled' = settled \cup {i}
  /\ responded' = IF ok THEN responded \cup {i} ELSE responded
  /\ LET valued == [k \in DOMAIN results |->
                      IF results[k].request = i
                        THEN [request |-> i, value |-> {ThenCatch(i, ok)}]
                        ELSE results[k]]
     IN
     IF bpc = "racing" /\ RaceDecided(executing, settled')
       THEN LET current == executing[Len(executing)]
                run == RunLoop(current + 1, requests, concurrency,
                               Splice(executing, current), settled')
            IN /\ launched' = launched \cup run.launched
               /\ executing' = run.executing
               /\ results' = Pushed(valued, current + 1,
                                    LaunchCount(launched \cup run.launched) - 1)
               /\ bpc' = BatchPosition(run, requests, settled')
       ELSE /\ bpc' = IF bpc = "gathering" /\ (0..(requests - 1)) \subseteq settled'
                        THEN "returned" ELSE bpc
            /\ results' = valued
            /\ UNCHANGED <<launched, executing>>
  /\ UNCHANGED <<requests, concurrency>>
  /\ UNCHANGED <<netVars, clientVars, utilVars>>

BatchStep ==
  \/ \E n \in 0..MaxBatch, c \in Concurrencies : BatchStart(n, c)
  \/ \E i \in 0..(MaxBatch - 1), ok \in BOOLEAN : RequestSettled(i, ok)

\* ------------------------------------------- DLSiteClient: string helpers

\* A string is a sequence of characters.  \d and \w of the regular
\* expressions, on the characters of the model.
DigitChars == {"0", "1", "2", "3", "4", "5", "6", "7", "8", "9"}
LetterChars == {"B", "R", "V", "J", "b", "r", "v", "j", "X", "x", "g"}
WordChars == DigitChars \cup LetterChars \cup {"_"}

\* String.prototype.toUpperCase, by character.
toUpperCaseChar(c) ==
  CASE c = "b" -> "B" [] c = "r" -> "R" [] c = "v" -> "V"
    [] c = "j" -> "J" [] c = "x" -> "X" [] c = "g" -> "G"
    [] OTHER -> c
toUpperCase(str) == [k \in DOMAIN str |-> toUpperCaseChar(str[k])]

\* The number of digits that follow each other from position k on.
RECURSIVE DigitRun(_, _)
DigitRun(str, k) ==
  IF k > Len(str) \/ str[k] \notin DigitChars THEN 0
  ELSE 1 + DigitRun(str, k + 1)

\* [BRV]J under the i flag at position i.
PrefixAt(str, i) ==
  /\ i + 1 <= Len(str)
  /\ toUpperCaseChar(str[i]) \in {"B", "R", "V"}
  /\ toUpperCaseChar(str[i + 1]) = "J"

\* (?<!\w) at position i: no word character stands directly before it.
NotAfterWord(str, i) == i = 1 \/ str[i - 1] \notin WordChars

\* str.match(re) for an expression without the g flag: the match that
\* starts leftmost; {} when there is none.  `starts` holds the positions
\* where the expression matches and len[i] is the length of the (greedy)
\* match at position i.
FirstMatch(str, starts, len) ==
  IF starts = {} THEN {}
  ELSE LET i == CHOOSE j \in starts : \A k \in starts : j <= k
       IN {SubSeq(str, i, i + len[i] - 1)}

\* findProductId (63-69): /(?<!\w)[BRV]J\d+/i
findProductIdMatch(str) ==
  FirstMatch(str,
             {i \in DOMAIN str : NotAfterWord(str, i) /\ PrefixAt(str, i)
                                   /\ DigitRun(str, i + 2) >= 1},
             [i \in DOMAIN str |-> 2 + DigitRun(str, i + 2)])

Min(a, b) == IF a < b THEN a ELSE b

\* extractDLSiteIdFromPath (880 and 887): /[BRV]J\d{6,8}/i
extractMatch(str) ==
  FirstMatch(str,
             {i \in DOMAIN str : PrefixAt(str, i) /\ DigitRun(str, i + 2) >= 6},
             [i \in DOMAIN str |-> 2 + Min(DigitRun(str, i + 2), 8)])

\* path.basename: what follows the last separator.
RECURSIVE basename(_)
basename(p) ==
  IF p = <<>> \/ p[Len(p)] = "/" THEN <<>>
  ELSE Append(basename(SubSeq(p, 1, Len(p) - 1)), p[Len(p)])

\* isValidProductId (part_002 933-942): /^[BRV]J\d{6,8}$/i
isValidProductId(productId) ==
  /\ PrefixAt(productId, 1)
  /\ DigitRun(productId, 3) = Len(productId) - 2
  /\ Len(productId) - 2 \in 6..8

\* The strings handed to the resolvers: folder and file names that hold
\* something like an id, between other characters.
Before == { <<>>, <<"_">>, <<"x">>, <<"7">>, <<"-">>, <<"g", "/">> }
Heads == { <<"R", "J">>, <<"r", "j">>, <<"V", "J">>, <<"b", "J">>, <<"X", "J">>, <<"R">> }
DigitsOf(n) == [k \in 1..n |-> ToString(k % 10)]
After == { <<>>, <<"_">>, <<"x">>, <<" ", "R", "J", "1", "2", "3", "4", "5", "6">> }
IdStrings ==
  { b \o h \o DigitsOf(n) \o a : b \in Before, h \in Heads, n \in 0..MaxDigits, a \in After }

\* The helpers keep no state: a behaviour calls one of them, once.
\* findProductId(str)
FindProductIdCall(str) ==
  /\ upc = "idle"
  /\ upc' = "findProductId"
  /\ arg' = str
  /\ result' = {toUpperCase(m) : m \in findProductIdMatch(str)}
  /\ threw' = (findProductIdMatch(str) = {})
  /\ UNCHANGED <<netVars, clientVars, batchVars>>

\* extractDLSiteIdFromPath(folderPath): the path, then its last component.
ExtractDLSiteIdFromPathCall(folderPath) ==
  /\ upc = "idle"
  /\ upc' = "extractDLSiteIdFromPath"
  /\ arg' = folderPath
  /\ result' = IF extractMatch(folderPath) # {}
                 THEN {toUpperCase(m) : m \in extractMatch(folderPath)}
                 ELSE {toUpperCase(m) : m \in extractMatch(basename(folderPath))}
  /\ threw' = FALSE
  /\ UNCHANGED <<netVars, clientVars, batchVars>>

IdStep ==
  \/ \E str \in IdStrings : FindProductIdCall(str)
  \/ \E str \in IdStrings : ExtractDLSiteIdFromPathCall(str)

\* ----------------------------------------- DLSiteClient: _ensureAbsoluteUrl

\* String.prototype.startsWith
startsWith(str, prefix) ==
  Len(prefix) <= Len(str) /\ SubSeq(str, 1, Len(prefix)) = prefix

Https == <<"h", "t", "t", "p", "s", ":">>
HttpSlashes == <<"h", "t", "t", "p", ":", "/", "/">>
HttpsSlashes == Https \o <<"/", "/">>

\* An origin without its scheme.
OriginNoScheme == <<"w", "w", "w", ".", "d", "l", "s", "i", "t", "e", ".", "c", "o", "m">>

\* 'https://www.dlsite.com' of lines 95 and 97.
Origin == HttpsSlashes \o <<"w", "w", "w", ".", "d", "l", "s", "i", "t", "e", ".", "c", "o", "m">>

\* _ensureAbsoluteUrl (88-102) on {} (null or undefined) or {a string}; the
\* empty string is falsy too.
ensureAbsoluteUrl(url) ==
  IF url = {} \/ url = {<<>>} THEN {}
  ELSE LET u == CHOOSE v \in url : TRUE IN
    IF startsWith(u, <<"/", "/">>) THEN {Https \o u}
    ELSE IF ~startsWith(u, HttpSlashes) /\ ~startsWith(u, HttpsSlashes)
      THEN IF startsWith(u, <<"/">>) THEN {Origin \o u}
           ELSE {Origin \o <<"/">> \o u}
    ELSE {u}

\* The URLs of the model: how they begin, and what follows.
UrlStarts ==
  { <<>>, <<"/", "/">>, <<"/">>, HttpSlashes, HttpsSlashes, Https,
    <<"h", "t", "t", "p", ":", "/">>, <<"H", "T", "T", "P", ":", "/", "/">> }
TailChars == {"a", "/", ":"}
Tails == UNION {[1..n -> TailChars] : n \in 0..MaxTail}
Urls == {s \o t : s \in UrlStarts, t \in Tails}

\* _ensureAbsoluteUrl(url)
EnsureAbsoluteUrlCall(url) ==
  /\ upc = "idle"
  /\ upc' = "ensureAbsoluteUrl"
  /\ arg' = url
  /\ result' = ensureAbsoluteUrl({url})
  /\ threw' = FALSE
  /\ UNCHANGED <<netVars, clientVars, batchVars>>

\* _ensureAbsoluteUrl called on what the call before returned.
EnsureAbsoluteUrlAgain ==
  /\ upc = "ensureAbsoluteUrl"
  /\ upc' = "ensureAbsoluteUrl.again"
  /\ result' = ensureAbsoluteUrl(result)
  /\ UNCHANGED <<arg, threw>>
  /\ UNCHANGED <<netVars, clientVars, batchVars>>

UrlStep ==
  \/ \E url \in Urls : EnsureAbsoluteUrlCall(url)
  \/ EnsureAbsoluteUrlAgain

\* ---------------------------------------------------------- specification

\* Steps of the tunnel controller that every caller can cause.
TunnelStep ==
  \/ \E c \in Calls : ConnectStart(c)
  \/ \E c \in Calls : Poll(c)
  \/ \E c \in Calls : WaitTimeout(c)
  \/ \E c \in Calls, o \in ProbeOutcomes : ProbeDone(c, o)
  \/ \E c \in Calls, ch \in Chunks : Output(c, ch)
  \/ \E c \in Calls : ProcError(c)
  \/ \E c \in Calls : ProcExit(c)
  \/ \E p \in Calls : KillTimerFire(p)
  \/ \E d \in Discs : DisableStart(d)

\* enableVPN(configPath), the way ipc-handlers.js:139 calls it: no credentials.
PlainStep ==
  \/ TunnelStep
  \/ \E c \in Calls, found \in BOOLEAN : FindDone(c, found, FALSE)

\* enableVPN(configPath, username, password): credentials are optional.
CredStep ==
  \/ TunnelStep
  \/ \E c \in Calls, found \in BOOLEAN, creds \in BOOLEAN : FindDone(c, found, creds)
  \/ \E c \in Calls, ok \in BOOLEAN : WriteDone(c, ok)
  \/ \E c \in Calls : ConnectUnlinkDone(c)
  \/ FloatingUnlinkDone
  \/ \E d \in Discs : DisableUnlinkDone(d)

\* The whole network layer.
Next == CredStep \/ RequestStep
Spec == Init /\ [][Next]_vars

\* The tunnel controller alone.
TunnelNext == CredStep
TunnelSpec == Init /\ [][TunnelNext]_vars

\* The dispatcher with the tunnel controller as the application drives it.
AppNext == PlainStep \/ RequestStep
AppSpec == Init /\ [][AppNext]_vars

\* The tunnel controller driven by the application while a tunnel is up.
ReconnectNext == PlainStep
ReconnectSpec == EstablishedInit /\ [][ReconnectNext]_vars

\* A DLSite client constructed without a network manager answering one lookup.
BareLookupNext == BareLookupStep
BareLookupSpec == BareInit /\ [][BareLookupNext]_vars

\* The DLSite client answering one metadata lookup.
LookupNext == LookupStep
LookupSpec == Init /\ [][LookupNext]_vars

\* The DLSite client downloading images.
ImageNext == ImageStep
ImageSpec == Init /\ [][ImageNext]_vars

\* makeRequest calls alone.  fetch() settles every attempt (the 30 s timeout
\* of line 74 ends an attempt that got no answer) and the timer of delay()
\* fires; when a call is made is up to the caller.
AttemptSettles ==
  \/ \E r \in Reqs, st \in Responses : AttemptResponse(r, st)
  \/ \E r \in Reqs, e \in Errors : AttemptError(r, e)
  \/ \E r \in Reqs : BackoffDone(r)
ReqNext == RequestStep
FairReqSpec == Init /\ [][ReqNext]_vars /\ WF_vars(AttemptSettles)

\* One makeBatchRequests call.
BatchNext == BatchStep
BatchSpec == Init /\ [][BatchNext]_vars

\* The id resolvers called on strings.
IdNext == IdStep
IdSpec == Init /\ [][IdNext]_vars

\* _ensureAbsoluteUrl called on URLs, and on its own results.
UrlNext == UrlStep
UrlSpec == Init /\ [][UrlNext]_vars

\* ------------------------------------------------------------------ claims

\* C1 (as stated): one makeRequest call submits its request at most 3 times.
C1_AtMostThreeSubmissions == \A r \in Reqs : attempts[r] <= 3

\* C1 (amended): one makeRequest call submits its request at most
\* maxRetries + 1 = 4 times: the first attempt and at most maxRetries retries.
C1_AtMostMaxRetriesPlusOne == \A r \in Reqs : attempts[r] <= maxRetries + 1

\* The fourth submission of a call is in flight.
C1_Witness == \E r \in Reqs : rpc[r] = "inflight" /\ attempts[r] = maxRetries + 1

\* The transient allow-list as the claim names it.
TransientNames == {"ECONNRESET", "ETIMEDOUT", "ECONNREFUSED", "EHOSTUNREACH"}
OnAllowList(e) ==
  \/ e.code \in TransientNames
  \/ \E i \in DOMAIN e.message : e.message[i] \in TransientNames
  \/ \E i \in DOMAIN e.message :
       /\ i + 2 <= Len(e.message)
       /\ e.message[i] = "socket" /\ e.message[i + 1] = "hang" /\ e.message[i + 2] = "up"

\* C2: an attempt that fails with an error that is not on the allow-list is
\* not retried: the call throws right after it, with no backoff; an attempt
\* answered by a response of any status, 4xx and 5xx included, returns it.
C2_PermanentErrorsPropagate ==
  /\ (ev.op = "error" /\ ~OnAllowList(ev.x.error))
        => (~ev.ok /\ rpc[ev.id] = "thrown")
  /\ ev.op = "response" => rpc[ev.id] = "returned"

\* The first attempt of a call failed with an error off the list and the
\* call has thrown.
C2_Witness ==
  /\ ev.op = "error"
  /\ ~OnAllowList(ev.x.error)
  /\ ev.x.attempt = 1
  /\ rpc[ev.id] = "thrown"

\* C3 (as stated): a dispatch carries the proxy agent if and only if a proxy
\* handle is set and the tunnel status is connected at that moment.
C3_ProxiedIffHandleAndConnected ==
  ev.op = "dispatch" =>
    (agent[ev.id] # 0 <=> (socksProxy # 0 /\ connectionStatus = "connected"))

\* C3 (amended): a dispatch carries the current proxy handle whenever the
\* dispatcher's useVPN flag is set and a handle exists, whatever the tunnel
\* status; the first attempt of a call is direct in every other case, and the
\* request is submitted either way.
C3_ProxiedIffFlagAndHandle ==
  ev.op = "dispatch" =>
    /\ rpc[ev.id] = "inflight"
    /\ (useVPN /\ socksProxy # 0) => agent[ev.id] = socksProxy
    /\ (ev.x = 1 /\ ~(useVPN /\ socksProxy # 0)) => agent[ev.id] = 0

\* A first attempt is sent through the proxy while the tunnel is not connected.
C3_Witness ==
  /\ ev.op = "dispatch"
  /\ ev.x = 1
  /\ useVPN
  /\ socksProxy # 0
  /\ agent[ev.id] = socksProxy
  /\ connectionStatus # "connected"

\* C4 (as stated): a connectToVPN call whose wait saw a terminal failure state
\* (auth_failed, connection_refused, error) before it saw connected never
\* resolves: every resolved call saw connected first.
C4_ResolvesOnlyIfConnectedFirst ==
  \A c \in Calls : cpc[c] = "resolved" => track[c] = "C"

\* C6 (as stated): when a disconnect() has completed, the status is
\* disconnected, isConnected is false, no proxy handle and no process handle
\* are held and no credential file path remains.
C6_DisconnectLeavesNothing ==
  ev.op \in {"disconnect.done", "connect.rejected"} =>
    (AlreadyDisconnected /\ ~authFilePath)

\* C7: a disconnect that starts in the fully disconnected state sends no
\* signal, reports success, and leaves the controller fully disconnected.
C7_DisconnectIdempotent ==
  (ev.op \in {"disconnect.start", "disconnect.done"} /\ ev.x = "idem") =>
    /\ ev.term = 0
    /\ ev.ok
    /\ ev.op = "disconnect.done" => AlreadyDisconnected

\* A second disableVPN in a row has completed from the disconnected state.
C7_Witness ==
  /\ ev.op = "disconnect.done"
  /\ ev.x = "idem"
  /\ ev.id = 2
  /\ ev.ok

\* C8 (as stated): when the 5 s timer armed by disconnect fires and the
\* process that got the SIGTERM is still running, SIGKILL is sent to it.
C8_KillEscalates ==
  (ev.op = "killtimer" /\ ev.x = "running") => ev.kill = ev.id

\* C9 (as stated): getStatus reports one of the seven listed states.
C9_SevenStatuses ==
  getStatus.status \in
    {"disconnected", "connecting", "connected", "reconnecting",
     "auth_failed", "connection_refused", "error"}

\* C9 (amended): getStatus reports one of the seven listed states or
\* disconnecting, the status held while disconnect() awaits its cleanup.
C9_EightStatuses ==
  getStatus.status \in
    {"disconnected", "connecting", "connected", "reconnecting",
     "auth_failed", "connection_refused", "error", "disconnecting"}

\* disconnect() is waiting for fs.unlink of the credential file.
C9_Witness ==
  /\ getStatus.status = "disconnecting"
  /\ \E d \in Discs : dpc[d] \in {"unlinking", "unlinking.idem"}

\* C10: when the proxy probe fails, connectToVPN still resolves with status
\* connected and no proxy handle, and a call of makeRequest made while no
\* handle is set is dispatched directly.
C10_DegradedModeIsDirect ==
  /\ (ev.op = "connect.resolved" /\ ev.x # "ok") =>
       /\ ev.ok
       /\ connectionStatus = "connected"
       /\ isConnected
       /\ ~getStatus.hasSocksProxy
  /\ (ev.op = "dispatch" /\ ev.x = 1 /\ socksProxy = 0) => agent[ev.id] = 0

\* A request is dispatched directly after a connect that resolved without a
\* proxy handle, while the tunnel is up and the dispatcher's flag is set.
C10_Witness ==
  /\ ev.op = "dispatch"
  /\ agent[ev.id] = 0
  /\ useVPN
  /\ connectionStatus = "connected"
  /\ ~getStatus.hasSocksProxy
  /\ getStatus.processRunning
  /\ \E c \in Calls : cpc[c] = "resolved"

\* The steps that belong to connectToVPN call c: its awaited file-system and
\* probe operations settle, and its poll and timeout timers fire.
CallStep(c) ==
  \/ \E found \in BOOLEAN, creds \in BOOLEAN : FindDone(c, found, creds)
  \/ \E ok \in BOOLEAN : WriteDone(c, ok)
  \/ Poll(c)
  \/ WaitTimeout(c)
  \/ \E o \in ProbeOutcomes : ProbeDone(c, o)
  \/ ConnectUnlinkDone(c)

\* The tunnel controller on an event loop that runs every pending callback.
\* Some pending step of some call is eventually run; as each call takes
\* finitely many steps, this is enough for every call to get its turn.
FairTunnelSpec ==
  TunnelSpec /\ WF_vars(\E c \in Calls : CallStep(c))

\* C5: every connectToVPN call that has started eventually resolves or
\* rejects, whatever the tunnel process reports or fails to report: from some
\* point on no call is pending (a settled call stays settled, and only
\* finitely many calls are made).
C5_ConnectSettles ==
  <>[](\A c \in Calls : cpc[c] \in {"idle", "resolved", "rejected"})

\* A call was rejected because the 30 s wait bound elapsed.
C5_Witness ==
  /\ ev.op = "connect.rejected"
  /\ ev.x = "VPN-Verbindung Timeout"
  /\ cpc[ev.id] = "rejected"

\* getGameInfo has returned.
GetGameInfoReturned == requested.entry = "getGameInfo" /\ gpc = "returned"
\* getProductInfo threw (816) / getWorkDetails threw (830) in this call.
ApiFetchFailed == basicInfo = {BasicInfoFallback(requested.productId)}
HtmlFetchFailed == details = {DetailsFallback(requested.productId)}
TitlePlaceholder(P) == "DLSite Game " \o P
DescriptionPlaceholder(P) == "A game from DLSite with ID " \o P

C12_SafeDefaults ==
  (requested.entry = "createGameInfo" /\ basicInfo = {} /\ details = {}
     /\ gpc \in {"returned", "threw"}) =>
    /\ gpc = "returned"
    /\ \A g \in gameInfo :
         /\ \A f \in {"id", "title", "developer", "genre", "description",
                      "coverImage", "dlsiteId", "dlsiteCircle"} :
              g[f] \notin {Undefined, Null}
         /\ \A f \in {"dlsiteTags", "dlsiteVoiceActors", "genreList"} :
              g[f] # NoList

\* C13 (as stated): when both fetches succeeded, the record has the requested
\* id as dlsiteId and the game id derived from it.
C13_IdFromRequest ==
  (GetGameInfoReturned /\ ~ApiFetchFailed /\ ~HtmlFetchFailed) =>
    \A g \in gameInfo :
      /\ g.dlsiteId = requested.productId
      /\ g.id \notin FallbackIds
      /\ g.id = (IF requested.internalId # 0
                   THEN padStart5(requested.internalId) \o "_" ELSE "")
                  \o "dlsite_" \o toLowerCase(requested.productId)

\* The genre list of the page the details were parsed from.
PageGenres == ListField(details, "genre")

\* C14 (as stated): for the genre list ["R18", "Adventure", "Drama"] the
\* primary genre is "Adventure" and "R18" is not among the tags.
C14_ExampleAdventure ==
  (gpc = "returned" /\ PageGenres = <<"R18", "Adventure", "Drama">>) =>
    \A g \in gameInfo :
      /\ g.genre = "Adventure"
      /\ \A i \in DOMAIN g.dlsiteTags : g.dlsiteTags[i] # "R18"

\* C14 (amended): the primary genre is the first entry of the page's genre
\* list that is not on the exclusion list, or "Visual Novel" when there is
\* none; as "Adventure" is on the exclusion list, the primary genre for
\* ["R18", "Adventure", "Drama"] is "Drama", and "R18" is not among the tags.
C14_FirstSurvivingGenre ==
  (gpc = "returned" /\ details # {}) =>
    \A g \in gameInfo :
      /\ \/ /\ g.genre = "Visual Novel"
            /\ PageGenres # NoList =>
                 \A i \in DOMAIN PageGenres : PageGenres[i] \in excludeFromGenres
         \/ /\ PageGenres # NoList
            /\ \E i \in DOMAIN PageGenres :
                 /\ PageGenres[i] = g.genre
                 /\ g.genre \notin excludeFromGenres
                 /\ \A j \in 1..(i - 1) : PageGenres[j] \in excludeFromGenres
      /\ PageGenres = <<"R18", "Adventure", "Drama">> =>
           /\ g.genre = "Drama"
           /\ \A i \in DOMAIN g.dlsiteTags : g.dlsiteTags[i] # "R18"

\* A record was built from a page whose genre list starts with excluded entries.
C14_Witness ==
  /\ gpc = "returned"
  /\ PageGenres = <<"R18", "Adventure", "Drama">>
  /\ \E g \in gameInfo : g.genre = "Drama" /\ g.genreList = <<"Drama">>

\* C15 (as stated): no entry of the genre exclusion list appears in dlsiteTags.
C15_NoTechnicalTags ==
  \A g \in gameInfo :
    g.dlsiteTags # NoList =>
      \A i \in DOMAIN g.dlsiteTags : g.dlsiteTags[i] \notin excludeFromGenres

\* getWorkDetails is over: it returned the parsed page or threw.
WorkDetailsOver == requested.entry = "getGameInfo" /\ gpc \in {"image", "returned"}

\* C17 (as stated): the candidate pages are requested in list order, none is
\* requested after one answered successfully, and getWorkDetails fails if
\* and only if no candidate answered successfully.
C17_FirstSuccessWins ==
  /\ \A i \in DOMAIN urlsTried : urlsTried[i] = i
  /\ \A c \in pageOk : c = urlsTried[Len(urlsTried)]
  /\ WorkDetailsOver => (HtmlFetchFailed <=> pageOk = {})

\* The downloadImage calls made so far for URL u.
ImageCallsFor(u) == {k \in Imgs : ipc[k] # "idle" /\ iurl[k] = u}

\* C16 (as stated): once downloadImage was called twice or more with the
\* same URL, exactly one request has been dispatched for that URL.
C16_OneDispatchPerUrl ==
  \A u \in ImageUrls : Cardinality(ImageCallsFor(u)) >= 2 => imgRequests[u] = 1

\* C16 (amended): the URL of a completed successful download is in the
\* cache; a call that starts while the cache holds its URL is answered from
\* the cache without a dispatch, and a call that starts while it does not
\* (no earlier call, an earlier call still in flight, or a failed one)
\* dispatches one request.
C16_CacheBeforeDispatch ==
  /\ [](\A j \in Imgs : ipc[j] = "downloaded" => iurl[j] \in DOMAIN imageCache)
  /\ [][\A k \in Imgs :
          (ipc[k] = "idle" /\ ipc'[k] # "idle") =>
            IF iurl'[k] \in DOMAIN imageCache
              THEN ipc'[k] = "cached" /\ imgRequests' = imgRequests
              ELSE /\ ipc'[k] = "fetching"
                   /\ imgRequests'[iurl'[k]] = imgRequests[iurl'[k]] + 1]_vars

\* A second call for a URL was answered from the cache after one dispatch.
C16_Witness ==
  \E k \in Imgs :
    /\ ipc[k] = "cached"
    /\ imgRequests[iurl[k]] = 1
    /\ \E j \in Imgs : j < k /\ ipc[j] = "downloaded" /\ iurl[j] = iurl[k]

\* C18 (as stated): the result of 'enable-vpn' and 'disable-vpn' has a
\* boolean success property that is true exactly when the connect or
\* disconnect succeeded, and a message that says the same.
C18_StructuredResult ==
  (EnableVpnCompleted \/ DisableVpnCompleted) =>
    /\ IpcReply.success.type = "boolean"
    /\ IpcReply.success.boolean <=> ev.ok
    /\ ev.ok <=> IpcReply.message \in {"VPN erfolgreich aktiviert",
                                       "VPN erfolgreich deaktiviert"}

\* C19 (as stated): at no time are more requests of a makeBatchRequests call
\* in flight than its concurrency limit.
C19_BoundedInFlight ==
  bpc # "idle" => Cardinality(InFlight) <= concurrency

\* A makeRequest call that has been made and has neither returned nor thrown.
Running(r) == rpc[r] \in {"inflight", "backoff"}

\* C20: if every attempt settles, every makeRequest call finishes: from some
\* point on no call is running.  A call throws only on an error that is not
\* retryable or on the error of the attempt that follows its last retry, and
\* every attempt after the first is submitted by the step that ends the
\* backoff wait of that call.
C20_RequestFinishes ==
  /\ <>[](\A r \in Reqs : ~Running(r))
  /\ [][/\ (ev'.op = "error" /\ ~ev'.ok) =>
             /\ rpc'[ev'.id] = "thrown"
             /\ \/ ~shouldRetry(ev'.x.error)
                \/ ev'.x.attempt = maxRetries + 1
        /\ (ev'.op = "response") => rpc'[ev'.id] = "returned"
        /\ (ev'.op = "dispatch" /\ ev'.x > 1) => rpc[ev'.id] = "backoff"]_vars

\* A call threw a retryable error after its last retry.
C20_Witness ==
  /\ ev.op = "error"
  /\ ~ev.ok
  /\ rpc[ev.id] = "thrown"
  /\ shouldRetry(ev.x.error)
  /\ ev.x.attempt = maxRetries + 1

\* The substrings of str that have the valid pattern: B, R or V, then J,
\* then 6 to 8 digits, in any letter case.
ValidIdsIn(str) ==
  UNION { { SubSeq(str, i, i + 1 + n) : n \in {m \in 6..8 : DigitRun(str, i + 2) >= m} }
            : i \in {j \in DOMAIN str : PrefixAt(str, j)} }

\* C21 (as stated): for a string that contains a valid-pattern id,
\* findProductId returns such a substring of it, upper-cased, whatever
\* stands around it.
C21_FindsIdInAnyNoise ==
  (upc = "findProductId" /\ ValidIdsIn(arg) # {}) =>
    /\ ~threw
    /\ \E id \in ValidIdsIn(arg) : result = {toUpperCase(id)}

\* A returned id that ends where the digits of the string go on.
CutOff(id, str) ==
  \E i \in DOMAIN str :
    /\ i + Len(id) <= Len(str)
    /\ toUpperCase(SubSeq(str, i, i + Len(id) - 1)) = id
    /\ str[i + Len(id)] \in DigitChars

\* C22 (as stated): what a resolver returns passes isValidProductId and is
\* not cut off from a longer digit run; for a string without a valid id
\* findProductId throws and extractDLSiteIdFromPath returns null.
C22_NeverMalformed ==
  upc \in {"findProductId", "extractDLSiteIdFromPath"} =>
    /\ \A id \in result : isValidProductId(id) /\ ~CutOff(id, arg)
    /\ ValidIdsIn(arg) = {} =>
         /\ result = {}
         /\ threw <=> upc = "findProductId"

\* C23: _ensureAbsoluteUrl applied to its own result returns that result,
\* for protocol-relative, root-relative, bare-relative and absolute URLs.
C23_EnsureAbsoluteIdempotent ==
  [][upc' = "ensureAbsoluteUrl.again" => result' = result]_vars

\* The helper was applied twice to a bare-relative URL.
C23_Witness ==
  /\ upc = "ensureAbsoluteUrl.again"
  /\ arg # <<>>
  /\ ~startsWith(arg, <<"/">>)
  /\ ~startsWith(arg, HttpSlashes) /\ ~startsWith(arg, HttpsSlashes)
  /\ result = {Origin \o <<"/">> \o arg}

\* C24 (as stated): a connectToVPN / enableVPN call made while the tunnel is
\* connected is rejected, sends no signal to the running process and leaves
\* the status, isConnected, the proxy handle, the process handle and the
\* VPN-enabled flag as they were.
C24_ConnectWhileConnectedIsInert ==
  [][\A c \in Calls :
       (cpc[c] = "idle" /\ cpc'[c] # "idle" /\ isConnected) =>
         /\ cpc'[c] = "rejected"
         /\ ev'.term = 0
         /\ UNCHANGED <<connectionStatus, isConnected, socksProxy, vpnProcess, useVPN>>]_vars

\* C25 (as stated), for the exit event: when a process exits that the
\* controller has replaced by a newer one, the handle of the new process,
\* the proxy handle, the credential file state and the status of the new
\* connection stay as they were.
C25_LateEventsIgnored ==
  [][\A p \in Calls :
       (proc[p] = "running" /\ proc'[p] = "exited" /\ vpnProcess \notin {0, p}) =>
         UNCHANGED <<vpnProcess, socksProxy, authFilePath, authFileExists, floating,
                     connectionStatus, isConnected>>]_vars

\* C26 (as stated): whenever the controller reports status connected, it
\* holds a tunnel process and that process is alive.
C26_ConnectedHasLiveProcess ==
  getStatus.status = "connected" =>
    /\ getStatus.processRunning
    /\ proc[vpnProcess] = "running"

\* NetworkManager.isVPNEnabled (network-manager.js 181-183).
isVPNEnabled == useVPN /\ isConnected

\* C27 (as stated): isConnected, and with it isVPNEnabled, is true only
\* while the status is connected.
C27_FlagFollowsStatus ==
  /\ getStatus.isConnected => getStatus.status = "connected"
  /\ isVPNEnabled => getStatus.status = "connected"

\* C28 (as stated): every attempt of a makeRequest call, retries included,
\* carries the proxy agent exactly if the VPN flag and the proxy handle are
\* set when the attempt is submitted; an attempt submitted after the VPN was
\* disabled or the handle dropped carries none.
C28_RetryRoutedByCurrentState ==
  [][\A r \in Reqs :
       (rpc[r] = "backoff" /\ rpc'[r] = "inflight") =>
         agent'[r] = IF useVPN /\ socksProxy # 0 THEN socksProxy ELSE 0]_vars

\* What Promise.all(results) resolves to once every promise has a value.
BatchResolution == [k \in DOMAIN results |-> CHOOSE v \in results[k].value : TRUE]

\* C29: makeBatchRequests holds one promise per launched request, in the
\* order of the requests, and no promise is rejected; when the call has
\* returned, its resolution has one result per request, the i-th result
\* names the URL of the i-th request and has success true exactly if that
\* request returned a response.
C29_OneResultPerRequestInOrder ==
  /\ \A k \in DOMAIN results : results[k].request = k - 1
  /\ \A k \in DOMAIN results : results[k].value # {} <=> (k - 1) \in settled
  /\ bpc = "returned" =>
       /\ Len(BatchResolution) = requests
       /\ \A k \in DOMAIN BatchResolution :
            /\ BatchResolution[k].url = UrlOf(k - 1)
            /\ BatchResolution[k].success <=> (k - 1) \in responded

\* A call with more requests than its concurrency returned; its first
\* request failed and its last one returned a response.
C29_Witness ==
  /\ bpc = "returned"
  /\ requests > concurrency
  /\ ~BatchResolution[1].success
  /\ BatchResolution[requests].success

\* C30 (as stated): getGameInfo on a client constructed without a network
\* manager has submitted a request to the API endpoint and to the product
\* page by the time it returns.
C30_BareClientStillFetches ==
  (~networkManager /\ GetGameInfoReturned) =>
    /\ apiRequests >= 1
    /\ urlsTried # <<>>

====
